---- MODULE Spec2Model ----
(***************************************************************************)
(* Model of the nickname edit workflow (components/my_page/edit_nickname)  *)
(* and of the toast store (store/toast).                                   *)
(*                                                                         *)
(* The component is a set of React state cells mutated by event handlers.  *)
(* Each handler runs to its first await in the event that triggers it; the *)
(* code after the await runs as one continuation when the call settles.    *)
(* Calls in flight are kept in checkCalls / updateCalls with the nickname  *)
(* their closure captured.  User-visible strings are written in ASCII.     *)
(*                                                                         *)
(* The UserHobby component (second half of store/toast.ts) is modelled as  *)
(* render / effect / fetch-settled steps over its hobbyTags state cell.    *)
(***************************************************************************)
EXTENDS Naturals, Sequences, FiniteSets

VARIABLES
    newNickname,          \* useState('')     edit_nickname.tsx:14
    isNicknameVerified,   \* useState(false)  edit_nickname.tsx:15
    isLoading,            \* useState(false)  edit_nickname.tsx:16
    isError,              \* useState(false)  edit_nickname.tsx:17
    errorMessage,         \* useState('')     edit_nickname.tsx:18
    showNicknameEdit,     \* useState(false)  edit_nickname.tsx:19
    checkCalls,           \* userApi.validateNickname calls in flight
    updateCalls,          \* userApi.updateNickname calls in flight
    sessionChanges,       \* arguments of onNicknameChange since the surface was last opened
    lastEvent,            \* the event or continuation that ran last
    isVisible,            \* toast store, toast.ts:80
    message,              \* toast store, toast.ts:94
    toastCalls,           \* the calls made on the toast store, in order
    checkedNickname,      \* nickname of the last check that resolved with exists: false,
                          \* "" once the input changed newNickname after it
    hobbyTags,            \* useState<string[]>([])  toast.ts:171
    tagPhase,             \* "unmounted", "rendered" (effects not yet run) or "idle"
    tagDirty,             \* setHobbyTags ran and the re-render has not happened yet
    tagEffectRan,         \* the effects of the mount render have run
    tagView,              \* what the last render of UserHobby displays
    tagFetches,           \* getMyPageInfo calls in flight
    tagFetchCount,        \* getMyPageInfo calls dispatched so far
    tagResponse           \* how the last settled getMyPageInfo call settled

editVars == <<newNickname, isNicknameVerified, isLoading, isError,
              errorMessage, showNicknameEdit>>
flightVars == <<checkCalls, updateCalls, sessionChanges>>
toastVars == <<isVisible, message, toastCalls>>
tagVars == <<hobbyTags, tagPhase, tagDirty, tagEffectRan, tagView,
             tagFetches, tagFetchCount, tagResponse>>
vars == <<newNickname, isNicknameVerified, isLoading, isError, errorMessage,
          showNicknameEdit, checkCalls, updateCalls, sessionChanges,
          lastEvent, isVisible, message, toastCalls, checkedNickname,
          hobbyTags, tagPhase, tagDirty, tagEffectRan, tagView,
          tagFetches, tagFetchCount, tagResponse>>

----------------------------------------------------------------------------
(* Bounds and input domains *)

MaxInFlight == 2
MaxToastCalls == 4
MaxTags == 3
MaxTagFetches == 2

Nicknames == {"alice", "bob"}
ServerMessages == {"nickname already in use", "nickname not allowed"}
ToastMessages == {"", "saved", "login required"}
TagLabels == {"reading", "hiking", "music"}
TagLists == UNION {[1..n -> TagLabels] : n \in 0..MaxTags}

(* edit_nickname.tsx:56 and :72 *)
ServerErrorMessage == "server error, try again"
SaveErrorMessage == "nickname change failed"

Ev(op, arg, stale) == [op |-> op, arg |-> arg, stale |-> stale]

Call(nickname) == [nickname |-> nickname, stale |-> FALSE, edited |-> FALSE]

RemoveAt(s, i) == [j \in 1..(Len(s) - 1) |-> IF j < i THEN s[j] ELSE s[j + 1]]

MarkEdited(s) == [j \in 1..Len(s) |-> [s[j] EXCEPT !.edited = TRUE]]

MarkStale(s) == [j \in 1..Len(s) |-> [s[j] EXCEPT !.stale = TRUE]]

----------------------------------------------------------------------------
(* Initial state: the useState initialisers and the store's initial object *)

Init ==
    /\ newNickname = ""
    /\ isNicknameVerified = FALSE
    /\ isLoading = FALSE
    /\ isError = FALSE
    /\ errorMessage = ""
    /\ showNicknameEdit = FALSE
    /\ checkCalls = <<>>
    /\ updateCalls = <<>>
    /\ sessionChanges = <<>>
    /\ lastEvent = Ev("mount", "", FALSE)
    /\ isVisible = FALSE
    /\ message = ""
    /\ toastCalls = <<>>
    /\ checkedNickname = ""
    /\ hobbyTags = <<>>
    /\ tagPhase = "unmounted"
    /\ tagDirty = FALSE
    /\ tagEffectRan = FALSE
    /\ tagView = [kind |-> "none", labels |-> <<>>]
    /\ tagFetches = 0
    /\ tagFetchCount = 0
    /\ tagResponse = [kind |-> "none", hasTags |-> FALSE, tags |-> <<>>]

----------------------------------------------------------------------------
(* The disabled attributes of the rendered controls *)

InputDisabled_IgnoresVerified == isLoading

InputDisabled == isLoading \/ isNicknameVerified

CheckButtonDisabled_IgnoresLoading == newNickname = "" \/ isNicknameVerified

CheckButtonDisabled == newNickname = "" \/ isNicknameVerified \/ isLoading

SaveButtonDisabled == ~isNicknameVerified

----------------------------------------------------------------------------
(* Events of the edit workflow *)

(* click on the open button: setShowNicknameEdit(true) *)
ClickOpen ==
    /\ showNicknameEdit' = TRUE
    /\ sessionChanges' = IF showNicknameEdit THEN sessionChanges ELSE <<>>
    /\ lastEvent' = Ev("ClickOpen", "", FALSE)
    /\ UNCHANGED <<newNickname, isNicknameVerified, isLoading, isError,
                   errorMessage, checkCalls, updateCalls>>
    /\ UNCHANGED <<toastVars, tagVars, checkedNickname>>

(* input onChange: setNewNickname(e.target.value); a disabled input takes no input *)
ChangeInput(value) ==
    /\ showNicknameEdit
    /\ lastEvent' = Ev("ChangeInput", value, FALSE)
    /\ newNickname' = IF InputDisabled THEN newNickname ELSE value
    /\ checkedNickname' = IF newNickname' = newNickname THEN checkedNickname ELSE ""
    /\ checkCalls' = IF newNickname' = newNickname THEN checkCalls
                                                   ELSE MarkEdited(checkCalls)
    /\ UNCHANGED <<isNicknameVerified, isLoading, isError, errorMessage,
                   showNicknameEdit, updateCalls, sessionChanges>>
    /\ UNCHANGED <<toastVars, tagVars>>

handleClickOutside_KeepsVerified ==
    /\ lastEvent' = Ev("handleClickOutside", "", FALSE)
    /\ IF showNicknameEdit
         THEN /\ showNicknameEdit' = FALSE
              /\ isError' = FALSE
              /\ errorMessage' = ""
              /\ checkCalls' = MarkStale(checkCalls)
              /\ updateCalls' = MarkStale(updateCalls)
         ELSE UNCHANGED <<showNicknameEdit, isError, errorMessage,
                          checkCalls, updateCalls>>
    /\ UNCHANGED <<newNickname, isNicknameVerified, isLoading, sessionChanges>>
    /\ UNCHANGED <<toastVars, tagVars, checkedNickname>>

(* mousedown on the document; the ref is set only while the surface is rendered *)
handleClickOutside ==
    /\ lastEvent' = Ev("handleClickOutside", "", FALSE)
    /\ IF showNicknameEdit
         THEN /\ showNicknameEdit' = FALSE
              /\ isError' = FALSE
              /\ errorMessage' = ""
              /\ isNicknameVerified' = FALSE
              /\ checkCalls' = MarkStale(checkCalls)
              /\ updateCalls' = MarkStale(updateCalls)
         ELSE UNCHANGED <<showNicknameEdit, isError, errorMessage,
                          isNicknameVerified, checkCalls, updateCalls>>
    /\ UNCHANGED <<newNickname, isLoading, sessionChanges>>
    /\ UNCHANGED <<toastVars, tagVars, checkedNickname>>

(* handleNicknameCheck up to its await *)
handleNicknameCheck ==
    IF newNickname = ""
      THEN UNCHANGED <<isLoading, isError, checkCalls>>
      ELSE /\ isLoading' = TRUE
           /\ isError' = FALSE
           /\ checkCalls' = Append(checkCalls, Call(newNickname))

(* click on the check button; a disabled button runs no handler *)
ClickCheck ==
    /\ showNicknameEdit
    /\ Len(checkCalls) < MaxInFlight
    /\ lastEvent' = Ev("ClickCheck", "", FALSE)
    /\ IF CheckButtonDisabled
         THEN UNCHANGED <<isLoading, isError, checkCalls>>
         ELSE handleNicknameCheck
    /\ UNCHANGED <<newNickname, isNicknameVerified, errorMessage,
                   showNicknameEdit, updateCalls, sessionChanges>>
    /\ UNCHANGED <<toastVars, tagVars, checkedNickname>>

CheckExists_GenericMessage(i, msg) ==
    /\ i \in 1..Len(checkCalls)
    /\ lastEvent' = Ev("CheckExists", msg, checkCalls[i].stale)
    /\ isError' = TRUE
    /\ errorMessage' = ServerErrorMessage
    /\ isLoading' = FALSE
    /\ checkCalls' = RemoveAt(checkCalls, i)
    /\ UNCHANGED <<newNickname, isNicknameVerified, showNicknameEdit,
                   updateCalls, sessionChanges>>
    /\ UNCHANGED <<toastVars, tagVars, checkedNickname>>

(* validateNickname resolved with exists: true *)
CheckExists(i, msg) ==
    /\ i \in 1..Len(checkCalls)
    /\ lastEvent' = Ev("CheckExists", msg, checkCalls[i].stale)
    /\ isError' = TRUE
    /\ errorMessage' = msg
    /\ isLoading' = FALSE
    /\ checkCalls' = RemoveAt(checkCalls, i)
    /\ UNCHANGED <<newNickname, isNicknameVerified, showNicknameEdit,
                   updateCalls, sessionChanges>>
    /\ UNCHANGED <<toastVars, tagVars, checkedNickname>>

CheckAvailable_NoFinally(i) ==
    /\ i \in 1..Len(checkCalls)
    /\ lastEvent' = Ev("CheckAvailable", checkCalls[i].nickname, checkCalls[i].stale)
    /\ isNicknameVerified' = TRUE
    /\ errorMessage' = ""
    /\ checkCalls' = RemoveAt(checkCalls, i)
    /\ checkedNickname' = IF checkCalls[i].edited THEN "" ELSE checkCalls[i].nickname
    /\ UNCHANGED <<newNickname, isLoading, isError, showNicknameEdit,
                   updateCalls, sessionChanges>>
    /\ UNCHANGED <<toastVars, tagVars>>

(* validateNickname resolved with exists: false *)
CheckAvailable(i) ==
    /\ i \in 1..Len(checkCalls)
    /\ lastEvent' = Ev("CheckAvailable", checkCalls[i].nickname, checkCalls[i].stale)
    /\ isNicknameVerified' = TRUE
    /\ errorMessage' = ""
    /\ isLoading' = FALSE
    /\ checkCalls' = RemoveAt(checkCalls, i)
    /\ checkedNickname' = IF checkCalls[i].edited THEN "" ELSE checkCalls[i].nickname
    /\ UNCHANGED <<newNickname, isError, showNicknameEdit,
                   updateCalls, sessionChanges>>
    /\ UNCHANGED <<toastVars, tagVars>>

CheckFailed_NoFinally(i) ==
    /\ i \in 1..Len(checkCalls)
    /\ lastEvent' = Ev("CheckFailed", "", checkCalls[i].stale)
    /\ isError' = TRUE
    /\ errorMessage' = ServerErrorMessage
    /\ checkCalls' = RemoveAt(checkCalls, i)
    /\ UNCHANGED <<newNickname, isNicknameVerified, isLoading, showNicknameEdit,
                   updateCalls, sessionChanges>>
    /\ UNCHANGED <<toastVars, tagVars, checkedNickname>>

(* validateNickname rejected: the catch block and the finally block *)
CheckFailed(i) ==
    /\ i \in 1..Len(checkCalls)
    /\ lastEvent' = Ev("CheckFailed", "", checkCalls[i].stale)
    /\ isError' = TRUE
    /\ errorMessage' = ServerErrorMessage
    /\ isLoading' = FALSE
    /\ checkCalls' = RemoveAt(checkCalls, i)
    /\ UNCHANGED <<newNickname, isNicknameVerified, showNicknameEdit,
                   updateCalls, sessionChanges>>
    /\ UNCHANGED <<toastVars, tagVars, checkedNickname>>

(* handleSave up to its await *)
handleSave ==
    IF ~isNicknameVerified
      THEN UNCHANGED updateCalls
      ELSE updateCalls' = Append(updateCalls, Call(newNickname))

ClickSave_Unguarded ==
    /\ showNicknameEdit
    /\ Len(updateCalls) < MaxInFlight
    /\ lastEvent' = Ev("ClickSave", "", FALSE)
    /\ updateCalls' = Append(updateCalls, Call(newNickname))
    /\ UNCHANGED editVars
    /\ UNCHANGED <<checkCalls, sessionChanges>>
    /\ UNCHANGED <<toastVars, tagVars, checkedNickname>>

(* click on the save button; a disabled button runs no handler *)
ClickSave ==
    /\ showNicknameEdit
    /\ Len(updateCalls) < MaxInFlight
    /\ lastEvent' = Ev("ClickSave", "", FALSE)
    /\ IF SaveButtonDisabled
         THEN UNCHANGED updateCalls
         ELSE handleSave
    /\ UNCHANGED editVars
    /\ UNCHANGED <<checkCalls, sessionChanges>>
    /\ UNCHANGED <<toastVars, tagVars, checkedNickname>>

(* updateNickname resolved: onNicknameChange(newNickname); setShowNicknameEdit(false) *)
SaveSucceeded(i) ==
    /\ i \in 1..Len(updateCalls)
    /\ lastEvent' = Ev("SaveSucceeded", updateCalls[i].nickname, updateCalls[i].stale)
    /\ sessionChanges' = Append(sessionChanges, updateCalls[i].nickname)
    /\ showNicknameEdit' = FALSE
    /\ updateCalls' = RemoveAt(updateCalls, i)
    /\ UNCHANGED <<newNickname, isNicknameVerified, isLoading, isError,
                   errorMessage, checkCalls>>
    /\ UNCHANGED <<toastVars, tagVars, checkedNickname>>

(* updateNickname rejected: the catch block *)
SaveFailed(i) ==
    /\ i \in 1..Len(updateCalls)
    /\ lastEvent' = Ev("SaveFailed", updateCalls[i].nickname, updateCalls[i].stale)
    /\ isError' = TRUE
    /\ errorMessage' = SaveErrorMessage
    /\ updateCalls' = RemoveAt(updateCalls, i)
    /\ UNCHANGED <<newNickname, isNicknameVerified, isLoading,
                   showNicknameEdit, checkCalls, sessionChanges>>
    /\ UNCHANGED <<toastVars, tagVars, checkedNickname>>

Next ==
    \/ ClickOpen
    \/ \E value \in Nicknames \cup {""} : ChangeInput(value)
    \/ handleClickOutside
    \/ ClickCheck
    \/ \E i \in 1..MaxInFlight, msg \in ServerMessages : CheckExists(i, msg)
    \/ \E i \in 1..MaxInFlight : CheckAvailable(i)
    \/ \E i \in 1..MaxInFlight : CheckFailed(i)
    \/ ClickSave
    \/ \E i \in 1..MaxInFlight : SaveSucceeded(i)
    \/ \E i \in 1..MaxInFlight : SaveFailed(i)

Spec == Init /\ [][Next]_vars

(* every validateNickname call in flight eventually settles *)
CheckSettles ==
    \E i \in 1..MaxInFlight :
        \/ \E msg \in ServerMessages : CheckExists(i, msg)
        \/ CheckAvailable(i)
        \/ CheckFailed(i)

FairSpec == Spec /\ WF_vars(CheckSettles)

----------------------------------------------------------------------------
(* The toast store *)

showToast_KeepsVisibleMessage(m) ==
    /\ Len(toastCalls) < MaxToastCalls
    /\ isVisible' = TRUE
    /\ message' = IF isVisible THEN message ELSE m
    /\ toastCalls' = Append(toastCalls, [op |-> "showToast", message |-> m])
    /\ UNCHANGED <<editVars, flightVars, lastEvent, checkedNickname, tagVars>>

showToast(m) ==
    /\ Len(toastCalls) < MaxToastCalls
    /\ isVisible' = TRUE
    /\ message' = m
    /\ toastCalls' = Append(toastCalls, [op |-> "showToast", message |-> m])
    /\ UNCHANGED <<editVars, flightVars, lastEvent, checkedNickname, tagVars>>

hideToast_Toggles ==
    /\ Len(toastCalls) < MaxToastCalls
    /\ isVisible' = ~isVisible
    /\ message' = ""
    /\ toastCalls' = Append(toastCalls, [op |-> "hideToast", message |-> ""])
    /\ UNCHANGED <<editVars, flightVars, lastEvent, checkedNickname, tagVars>>

hideToast_KeepsMessage ==
    /\ Len(toastCalls) < MaxToastCalls
    /\ isVisible' = FALSE
    /\ message' = message
    /\ toastCalls' = Append(toastCalls, [op |-> "hideToast", message |-> ""])
    /\ UNCHANGED <<editVars, flightVars, lastEvent, checkedNickname, tagVars>>

hideToast ==
    /\ Len(toastCalls) < MaxToastCalls
    /\ isVisible' = FALSE
    /\ message' = ""
    /\ toastCalls' = Append(toastCalls, [op |-> "hideToast", message |-> ""])
    /\ UNCHANGED <<editVars, flightVars, lastEvent, checkedNickname, tagVars>>

ToastNext ==
    \/ \E m \in ToastMessages : showToast(m)
    \/ hideToast

ToastSpec == Init /\ [][ToastNext]_vars

----------------------------------------------------------------------------
(* The UserHobby component *)

workflowAndToastVars == <<editVars, flightVars, lastEvent, checkedNickname, toastVars>>

(* the JSX of UserHobby: the labels in order, or the empty-state text *)
RenderTags(tags) ==
    IF Len(tags) > 0
      THEN [kind |-> "tags", labels |-> tags]
      ELSE [kind |-> "empty", labels |-> <<>>]

TagEffectDue_EveryRender == TRUE

(* useEffect(..., []): the effect runs after the mount render only *)
TagEffectDue == ~tagEffectRan

(* the mount render, or the re-render that setHobbyTags scheduled *)
TagRender ==
    /\ \/ tagPhase = "unmounted"
       \/ tagPhase = "idle" /\ tagDirty
    /\ tagView' = RenderTags(hobbyTags)
    /\ tagDirty' = FALSE
    /\ tagPhase' = "rendered"
    /\ UNCHANGED <<hobbyTags, tagEffectRan, tagFetches, tagFetchCount, tagResponse>>
    /\ UNCHANGED workflowAndToastVars

(* the effects of the last render run; fetchHobbies() calls getMyPageInfo *)
TagEffect ==
    /\ tagPhase = "rendered"
    /\ TagEffectDue => tagFetchCount < MaxTagFetches
    /\ IF TagEffectDue
         THEN /\ tagFetches' = tagFetches + 1
              /\ tagFetchCount' = tagFetchCount + 1
         ELSE UNCHANGED <<tagFetches, tagFetchCount>>
    /\ tagEffectRan' = TRUE
    /\ tagPhase' = "idle"
    /\ UNCHANGED <<hobbyTags, tagDirty, tagView, tagResponse>>
    /\ UNCHANGED workflowAndToastVars

(* getMyPageInfo resolved: setHobbyTags(data.hobbyTags || []) *)
TagFetchResolved(hasTags, tags) ==
    /\ tagFetches > 0
    /\ hasTags \/ tags = <<>>
    /\ hobbyTags' = IF hasTags THEN tags ELSE <<>>
    /\ tagDirty' = TRUE
    /\ tagFetches' = tagFetches - 1
    /\ tagResponse' = [kind |-> "resolved", hasTags |-> hasTags, tags |-> tags]
    /\ UNCHANGED <<tagPhase, tagEffectRan, tagView, tagFetchCount>>
    /\ UNCHANGED workflowAndToastVars

(* getMyPageInfo rejected: the catch block only logs *)
TagFetchRejected ==
    /\ tagFetches > 0
    /\ tagFetches' = tagFetches - 1
    /\ tagResponse' = [kind |-> "rejected", hasTags |-> FALSE, tags |-> <<>>]
    /\ UNCHANGED <<hobbyTags, tagPhase, tagDirty, tagEffectRan, tagView, tagFetchCount>>
    /\ UNCHANGED workflowAndToastVars

TagNext ==
    \/ TagRender
    \/ TagEffect
    \/ \E hasTags \in BOOLEAN, tags \in TagLists : TagFetchResolved(hasTags, tags)
    \/ TagFetchRejected

TagSpec == Init /\ [][TagNext]_vars

----------------------------------------------------------------------------
(* Properties *)

Resolved == {"CheckExists", "CheckAvailable", "CheckFailed",
             "SaveSucceeded", "SaveFailed"}

LastToastCall == toastCalls[Len(toastCalls)]

(* C1: a click on save while isNicknameVerified is false changes nothing:  *)
(* no updateNickname call is dispatched, onNicknameChange is not invoked   *)
(* and no state cell changes; an updateNickname call is dispatched only    *)
(* from a state in which isNicknameVerified is true.                       *)
C1_SaveNoOpUnlessVerified ==
    [][ /\ (lastEvent'.op = "ClickSave" /\ ~isNicknameVerified)
              => UNCHANGED <<editVars, flightVars>>
        /\ Len(updateCalls') > Len(updateCalls) => isNicknameVerified ]_vars

C1_Witness ==
    /\ lastEvent.op = "ClickSave"
    /\ showNicknameEdit
    /\ newNickname # ""
    /\ ~isNicknameVerified
    /\ updateCalls = <<>>

(* C2: when a call that was in flight while an outside click closed the    *)
(* surface settles, isNicknameVerified, isError, errorMessage and          *)
(* showNicknameEdit stay as they were.                                     *)
C2_StaleResultDiscarded ==
    [][ (lastEvent'.op \in Resolved /\ lastEvent'.stale)
          => UNCHANGED <<isNicknameVerified, isError, errorMessage,
                         showNicknameEdit>> ]_vars

(* C3: at most one validateNickname call is in flight in every reachable   *)
(* state, and a click on check while isLoading or with an empty            *)
(* newNickname changes nothing.                                            *)
C3_SingleCheckInFlight ==
    /\ [](Len(checkCalls) <= 1)
    /\ [][ (lastEvent'.op = "ClickCheck" /\ (isLoading \/ newNickname = ""))
             => UNCHANGED <<editVars, flightVars>> ]_vars

C3_Witness ==
    /\ lastEvent.op = "ClickCheck"
    /\ showNicknameEdit
    /\ isLoading
    /\ Len(checkCalls) = 1
    /\ checkCalls[1].stale

(* C4: a save from a verified state calls updateNickname with exactly the  *)
(* non-empty newNickname, and when an update succeeds the surface is       *)
(* closed and onNicknameChange has been invoked exactly once, with that    *)
(* nickname, since the surface was opened.                                 *)
C4_NotifiedExactlyOnce ==
    /\ [](lastEvent.op = "SaveSucceeded"
            => ~showNicknameEdit /\ sessionChanges = <<lastEvent.arg>>)
    /\ [][ Len(updateCalls') > Len(updateCalls)
             => /\ newNickname # ""
                /\ updateCalls'[Len(updateCalls')].nickname = newNickname ]_vars

(* C5: right after validateNickname resolves with exists: false,           *)
(* isNicknameVerified is true and isError is false.                        *)
C5_AvailableVerifiedNotFailed ==
    lastEvent.op = "CheckAvailable" => isNicknameVerified /\ ~isError

(* C6: right after validateNickname resolves with exists: true and         *)
(* message msg, isError is true, errorMessage is msg and                   *)
(* isNicknameVerified is false; a click on save that follows changes       *)
(* nothing.                                                                *)
C6_ExistsFailsUnverified ==
    /\ [](lastEvent.op = "CheckExists"
            => /\ isError
               /\ errorMessage = lastEvent.arg
               /\ ~isNicknameVerified)
    /\ [][ (lastEvent.op = "CheckExists" /\ lastEvent'.op = "ClickSave")
             => UNCHANGED <<editVars, flightVars>> ]_vars

C6_Witness ==
    /\ lastEvent.op = "ClickSave"
    /\ showNicknameEdit
    /\ isError
    /\ errorMessage \in ServerMessages
    /\ ~isNicknameVerified
    /\ updateCalls = <<>>

(* C7: an outside click while the surface is open leaves showNicknameEdit  *)
(* false, isError false, errorMessage empty and isNicknameVerified false.  *)
C7_OutsideClickResets ==
    [][ (showNicknameEdit /\ lastEvent'.op = "handleClickOutside")
          => /\ ~showNicknameEdit'
             /\ ~isError'
             /\ errorMessage' = ""
             /\ ~isNicknameVerified' ]_vars

C7_Witness ==
    /\ lastEvent.op = "handleClickOutside"
    /\ ~showNicknameEdit
    /\ Len(updateCalls) > 0
    /\ updateCalls[Len(updateCalls)].stale
    /\ ~isNicknameVerified
    /\ ~isError
    /\ errorMessage = ""

(* C8: every step that closes the surface leaves isNicknameVerified false, *)
(* isError false and errorMessage empty.                                   *)
C8_CloseResets ==
    [][ (showNicknameEdit /\ ~showNicknameEdit')
          => /\ ~isNicknameVerified'
             /\ ~isError'
             /\ errorMessage' = "" ]_vars

(* C9: a click on open while the surface is closed leaves the surface open *)
(* with newNickname empty, isNicknameVerified false and isError false.     *)
C9_OpenClears ==
    [][ (~showNicknameEdit /\ lastEvent'.op = "ClickOpen")
          => /\ showNicknameEdit'
             /\ newNickname' = ""
             /\ ~isNicknameVerified'
             /\ ~isError' ]_vars

C11_HideResetsIdempotent ==
    /\ []((toastCalls # <<>> /\ LastToastCall.op = "hideToast")
            => ~isVisible /\ message = "")
    /\ [][ (toastCalls # <<>> /\ LastToastCall.op = "hideToast"
              /\ Len(toastCalls') > Len(toastCalls)
              /\ toastCalls'[Len(toastCalls')].op = "hideToast")
             => UNCHANGED <<isVisible, message>> ]_vars

C11_Witness ==
    /\ Len(toastCalls) >= 3
    /\ LastToastCall.op = "hideToast"
    /\ toastCalls[Len(toastCalls) - 1].op = "hideToast"
    /\ toastCalls[Len(toastCalls) - 2].op = "showToast"
    /\ toastCalls[Len(toastCalls) - 2].message # ""
    /\ ~isVisible
    /\ message = ""

(* C12: in every state of the toast store, isVisible false implies         *)
(* message empty.                                                          *)
C12_HiddenHasNoMessage ==
    ~isVisible => message = ""

C12_Witness ==
    /\ Len(toastCalls) >= 2
    /\ LastToastCall.op = "hideToast"
    /\ toastCalls[Len(toastCalls) - 1].op = "showToast"
    /\ toastCalls[Len(toastCalls) - 1].message # ""
    /\ ~isVisible
    /\ message = ""

(* C18: in every state of the toast store, message empty implies isVisible *)
(* false, also after showToast("").                                        *)
C18_EmptyMessageNotVisible ==
    message = "" => ~isVisible

(* C13: right after updateNickname rejects, isError is true, errorMessage  *)
(* is the save message and the surface is open; the step leaves            *)
(* isNicknameVerified unchanged and does not invoke onNicknameChange.      *)
C13_SaveFailureStaysEditing ==
    /\ [](lastEvent.op = "SaveFailed"
            => /\ isError
               /\ errorMessage = SaveErrorMessage
               /\ showNicknameEdit)
    /\ [][ (lastEvent'.op = "SaveFailed" /\ Len(updateCalls') < Len(updateCalls))
             => UNCHANGED <<isNicknameVerified, sessionChanges>> ]_vars

(* C14: right after validateNickname rejects, isError is true,             *)
(* errorMessage is the server-error message, isNicknameVerified is false   *)
(* (and was not changed by the step) and isLoading is false.               *)
C14_CheckFailureState ==
    /\ [](lastEvent.op = "CheckFailed"
            => /\ isError
               /\ errorMessage = ServerErrorMessage
               /\ ~isNicknameVerified
               /\ ~isLoading)
    /\ [][ lastEvent'.op = "CheckFailed" => UNCHANGED isNicknameVerified ]_vars

C14_Witness ==
    /\ lastEvent.op = "CheckFailed"
    /\ showNicknameEdit
    /\ newNickname # ""
    /\ isError
    /\ errorMessage = ServerErrorMessage
    /\ ~isLoading
    /\ checkCalls = <<>>

(* C15: isLoading is true exactly when a validateNickname or an            *)
(* updateNickname call is in flight.                                       *)
C15_LoadingIffCallInFlight ==
    isLoading <=> (checkCalls # <<>> \/ updateCalls # <<>>)

(* C16: every nickname passed to updateNickname is the nickname of the     *)
(* last check that resolved with exists: false, and newNickname has not    *)
(* changed since that check was dispatched; while isNicknameVerified is    *)
(* true newNickname is that checked nickname.                              *)
C16_SavedNicknameWasChecked ==
    /\ [](isNicknameVerified
            => checkedNickname \in Nicknames /\ newNickname = checkedNickname)
    /\ [][ Len(updateCalls') > Len(updateCalls)
             => /\ checkedNickname \in Nicknames
                /\ updateCalls'[Len(updateCalls')].nickname = checkedNickname ]_vars

C16_Witness ==
    /\ lastEvent.op = "ClickSave"
    /\ Len(updateCalls) = 2
    /\ updateCalls[1].nickname = "alice"
    /\ updateCalls[1].stale
    /\ updateCalls[2].nickname = "bob"
    /\ checkedNickname = "bob"
    /\ newNickname = "bob"

(* C17: if every validateNickname call in flight eventually settles, every *)
(* state with isLoading true is followed by a state with isLoading false.  *)
C17_LoadingEventuallyClears ==
    isLoading ~> ~isLoading

C17_Witness ==
    /\ lastEvent.op \in {"CheckExists", "CheckAvailable", "CheckFailed"}
    /\ lastEvent.stale
    /\ showNicknameEdit
    /\ ~isLoading
    /\ checkCalls = <<>>

(* C19: UserHobby dispatches one getMyPageInfo call after mount and no     *)
(* more; once the call has settled and the component has re-rendered, a    *)
(* rejection or a missing or empty hobbyTags leaves hobbyTags empty with   *)
(* the empty-state text shown, and a non-empty list is held and shown as   *)
(* returned, in order.                                                     *)
C19_TagsFetchedOnceAndShown ==
    /\ tagFetchCount <= 1
    /\ tagEffectRan => tagFetchCount = 1
    /\ (tagResponse.kind # "none" /\ ~tagDirty)
         => IF tagResponse.kind = "rejected" \/ ~tagResponse.hasTags
                                             \/ tagResponse.tags = <<>>
              THEN /\ hobbyTags = <<>>
                   /\ tagView = [kind |-> "empty", labels |-> <<>>]
              ELSE /\ hobbyTags = tagResponse.tags
                   /\ tagView = [kind |-> "tags", labels |-> tagResponse.tags]

C19_Witness ==
    /\ tagResponse.kind = "resolved"
    /\ tagResponse.tags = <<"music", "reading">>
    /\ ~tagDirty
    /\ tagPhase = "idle"
    /\ tagFetchCount = 1
    /\ tagView = [kind |-> "tags", labels |-> <<"music", "reading">>]

====
